---- MODULE Spec2Model ----
(***************************************************************************)
(* Model of the numeric helpers of tests/python/contrib/test_cmsisnn/      *)
(* utils.py: get_range_for_dtype_str, get_same_padding,                    *)
(* get_conv2d_qnn_params and make_qnn_relu.                                *)
(*                                                                         *)
(* The helpers are pure functions.  The state machine is a caller that     *)
(* picks arguments from bounded sets, calls one helper (one action per     *)
(* helper, the whole body of the helper in one step) and then returns to   *)
(* idle.  Python floats are modelled as exact rationals [n, d] in lowest   *)
(* terms with d > 0, so every float operation is its exact real value.     *)
(***************************************************************************)
EXTENDS Integers, Sequences, FiniteSets

VARIABLES fn, args, result, locals, acc, taken

vars == <<fn, args, result, locals, acc, taken>>

(***************************************************************************)
(* Bounds of the model.                                                    *)
(***************************************************************************)
MaxInput == 8
MaxKernel == 3
MaxDilation == 2
MaxStride == 3
MaxWeightDim == 2
MaxAccDim == 2
ZpSpread == 1

(***************************************************************************)
(* Exact rational arithmetic standing for Python / numpy float arithmetic. *)
(***************************************************************************)
RECURSIVE GCD(_, _)
GCD(a, b) ==
    IF b = 0 THEN a ELSE GCD(b, a % b)

Abs(i) ==
    IF i < 0 THEN -i ELSE i

Rat(n, d) ==
    LET g == GCD(Abs(n), Abs(d))
        s == IF d < 0 THEN -1 ELSE 1
    IN  [n |-> (s * n) \div g, d |-> (s * d) \div g]

FromInt(i) ==
    [n |-> i, d |-> 1]

Zero ==
    FromInt(0)

\* p * q, cancelling across the factors before multiplying
RMul(p, q) ==
    LET g1 == GCD(Abs(p.n), q.d)
        g2 == GCD(Abs(q.n), p.d)
    IN  [n |-> (p.n \div g1) * (q.n \div g2), d |-> (p.d \div g2) * (q.d \div g1)]

\* p / q for q # 0
RDiv(p, q) ==
    RMul(p, IF q.n < 0 THEN [n |-> -q.d, d |-> -q.n] ELSE [n |-> q.d, d |-> q.n])

RAdd(p, q) ==
    LET g == GCD(p.d, q.d)
    IN  Rat(p.n * (q.d \div g) + q.n * (p.d \div g), (p.d \div g) * q.d)

RNeg(p) ==
    [n |-> -p.n, d |-> p.d]

RSub(p, q) ==
    RAdd(p, RNeg(q))

RSign(p) ==
    IF p.n > 0 THEN 1 ELSE IF p.n < 0 THEN -1 ELSE 0

RLe(p, q) ==
    RSign(RSub(p, q)) <= 0

RLt(p, q) ==
    RSign(RSub(p, q)) < 0

RMaxOf(S) ==
    CHOOSE m \in S : \A x \in S : RLe(x, m)

RMinOf(S) ==
    CHOOSE m \in S : \A x \in S : RLe(m, x)

\* floor of a rational (\div rounds toward minus infinity for a positive divisor)
Floor(p) ==
    p.n \div p.d

\* math.ceil
Ceil(p) ==
    -((-p.n) \div p.d)

\* Python int(float): truncation toward zero
TruncToInt(p) ==
    IF p.n >= 0 THEN p.n \div p.d ELSE -((-p.n) \div p.d)

\* Python 3 round(float): to nearest, exact ties to the even integer
RoundHalfEven(p) ==
    LET f == Floor(p)
        twice == 2 * (p.n - f * p.d)
    IN  IF twice < p.d THEN f
        ELSE IF twice > p.d THEN f + 1
        ELSE IF f % 2 = 0 THEN f ELSE f + 1

\* to nearest, exact ties away from zero (the rule the specification names)
RoundHalfAway(p) ==
    LET m == (2 * Abs(p.n) + p.d) \div (2 * p.d)
    IN  IF p.n < 0 THEN -m ELSE m

MaxInt(a, b) ==
    IF a >= b THEN a ELSE b

MinInt(a, b) ==
    IF a <= b THEN a ELSE b

(***************************************************************************)
(* get_range_for_dtype_str: np.iinfo(dtype).min, np.iinfo(dtype).max       *)
(***************************************************************************)
IntDTypes == {"int8", "uint8", "int16"}

get_range_for_dtype_str(dtype) ==
    CASE dtype = "int8"  -> <<-128, 127>>
      [] dtype = "uint8" -> <<0, 255>>
      [] dtype = "int16" -> <<-32768, 32767>>

(***************************************************************************)
(* get_same_padding                                                        *)
(***************************************************************************)
\* mutant: the dilation is left out of the effective kernel size
dilated_kernel_undilated(kernel, dilation) ==
    kernel

\* dilation * (kernel - 1) + 1
dilated_kernel(kernel, dilation) ==
    dilation * (kernel - 1) + 1

\* int(math.ceil(float(in) / float(stride)))
same_out(in, stride) ==
    Ceil(Rat(in, stride))

\* max(0, (out - 1) * stride + dilated_kernel - in)
same_pad_total(in, kernel, dilation, stride) ==
    MaxInt(0, (same_out(in, stride) - 1) * stride + dilated_kernel(kernel, dilation) - in)

\* pad // 2
same_pad_before(pad) ==
    pad \div 2

\* pad - pad_before
same_pad_after(pad) ==
    pad - same_pad_before(pad)

\* mutant: the result ordered [pad_top, pad_bottom, pad_left, pad_right]
get_same_padding_axis_order(in_shape, kernel, dilation, stride) ==
    LET pad_h == same_pad_total(in_shape[1], kernel[1], dilation[1], stride[1])
        pad_w == same_pad_total(in_shape[2], kernel[2], dilation[2], stride[2])
    IN  <<same_pad_before(pad_h), same_pad_after(pad_h),
          same_pad_before(pad_w), same_pad_after(pad_w)>>

\* [pad_top, pad_left, pad_bottom, pad_right]
get_same_padding(in_shape, kernel, dilation, stride) ==
    LET pad_h == same_pad_total(in_shape[1], kernel[1], dilation[1], stride[1])
        pad_w == same_pad_total(in_shape[2], kernel[2], dilation[2], stride[2])
    IN  <<same_pad_before(pad_h), same_pad_before(pad_w),
          same_pad_after(pad_h), same_pad_after(pad_w)>>

Pairs(S) ==
    S \X S

PadArgs ==
    [in_shape : Pairs(1..MaxInput), kernel : Pairs(1..MaxKernel),
     dilation : Pairs(1..MaxDilation), stride : Pairs(1..MaxStride)]

(***************************************************************************)
(* get_conv2d_qnn_params                                                   *)
(*                                                                         *)
(* An argument record a holds weight_shape (a 4-tuple), input_scale,       *)
(* input_zp, weights_scale, weights_zp, the three dtypes and is_depthwise. *)
(* weights_scale is Union[float, List[float]]: [scalar |-> TRUE, v |-> r]  *)
(* or [scalar |-> FALSE, v |-> <<r1, ..., rk>>].                           *)
(***************************************************************************)
ScaleValues(weights_scale) ==
    IF weights_scale.scalar THEN {weights_scale.v}
    ELSE {weights_scale.v[i] : i \in DOMAIN weights_scale.v}

\* mutant: the input maximum divided by the scale instead of multiplied
input_max_divided(input_scale, input_dtype_max, input_zp) ==
    RDiv(FromInt(input_dtype_max - input_zp), input_scale)

\* input_scale * (input_dtype_max - input_zp)
input_max(input_scale, input_dtype_max, input_zp) ==
    RMul(input_scale, FromInt(input_dtype_max - input_zp))

\* input_scale * (input_dtype_min - input_zp)
input_min(input_scale, input_dtype_min, input_zp) ==
    RMul(input_scale, FromInt(input_dtype_min - input_zp))

\* np.max(weights_scale)
weights_sc_max(weights_scale) ==
    RMaxOf(ScaleValues(weights_scale))

\* np.min(weights_scale)
weights_sc_min(weights_scale) ==
    RMinOf(ScaleValues(weights_scale))

\* weights_sc_max * (weights_dtype_max - weights_zp)
weights_max(weights_scale, weights_dtype_max, weights_zp) ==
    RMul(weights_sc_max(weights_scale), FromInt(weights_dtype_max - weights_zp))

\* weights_sc_min * (weights_dtype_min - weights_zp)
weights_min(weights_scale, weights_dtype_min, weights_zp) ==
    RMul(weights_sc_min(weights_scale), FromInt(weights_dtype_min - weights_zp))

\* mutant: the element count is not adjusted for a depthwise convolution
num_elements_unadjusted(weight_shape, is_depthwise) ==
    FromInt(weight_shape[2] * weight_shape[3] * weight_shape[4])

\* weights_h * weights_w * channels, divided (true division) by channels if depthwise
num_elements(weight_shape, is_depthwise) ==
    LET weights_h == weight_shape[2]
        weights_w == weight_shape[3]
        channels == weight_shape[4]
        n == weights_h * weights_w * channels
    IN  IF is_depthwise THEN Rat(n, channels) ELSE FromInt(n)

\* the four products of the weight and input extremes, each times num_elements
output_limits(w_max, w_min, in_max, in_min, n) ==
    {RMul(RMul(w_max, in_max), n), RMul(RMul(w_min, in_max), n),
     RMul(RMul(w_min, in_min), n), RMul(RMul(w_max, in_min), n)}

\* (output_max - output_min) / (output_dtype_max - output_dtype_min)
output_scale(out_max, out_min, output_dtype_max, output_dtype_min) ==
    RDiv(RSub(out_max, out_min), FromInt(output_dtype_max - output_dtype_min))

\* the float handed to int(): output_dtype_min - (output_min / output_scale)
output_zp_real(out_min, out_scale, output_dtype_min) ==
    RSub(FromInt(output_dtype_min), RDiv(out_min, out_scale))

\* mutant: floor instead of truncation toward zero
output_zp_floor(out_min, out_scale, output_dtype_min) ==
    Floor(output_zp_real(out_min, out_scale, output_dtype_min))

\* mutant: the quotient added instead of subtracted
output_zp_sign_slip(out_min, out_scale, output_dtype_min) ==
    TruncToInt(RAdd(FromInt(output_dtype_min), RDiv(out_min, out_scale)))

\* int(output_dtype_min - (output_min / output_scale))
output_zp(out_min, out_scale, output_dtype_min) ==
    TruncToInt(output_zp_real(out_min, out_scale, output_dtype_min))

\* The local variables of get_conv2d_qnn_params at its return statement.  A zero
\* output_scale makes output_min / output_scale non-finite and int() of it raises:
\* no pair is returned (status "non_finite").
conv2d_locals(a) ==
    LET in_r == get_range_for_dtype_str(a.input_dtype)
        in_max == input_max(a.input_scale, in_r[2], a.input_zp)
        in_min == input_min(a.input_scale, in_r[1], a.input_zp)
        w_r == get_range_for_dtype_str(a.weights_dtype)
        w_max == weights_max(a.weights_scale, w_r[2], a.weights_zp)
        w_min == weights_min(a.weights_scale, w_r[1], a.weights_zp)
        n == num_elements(a.weight_shape, a.is_depthwise)
        limits == output_limits(w_max, w_min, in_max, in_min, n)
        out_max == RMaxOf(limits)
        out_min == RMinOf(limits)
        out_r == get_range_for_dtype_str(a.output_dtype)
        out_scale == output_scale(out_max, out_min, out_r[2], out_r[1])
    IN  [num_elements |-> n, output_max |-> out_max, output_min |-> out_min,
         output_dtype_min |-> out_r[1], output_dtype_max |-> out_r[2],
         output_scale |-> out_scale,
         output_zp_real |-> IF out_scale.n = 0 THEN Zero
                            ELSE output_zp_real(out_min, out_scale, out_r[1]),
         output_zp |-> IF out_scale.n = 0 THEN 0 ELSE output_zp(out_min, out_scale, out_r[1]),
         status |-> IF out_scale.n = 0 THEN "non_finite" ELSE "ok"]

\* return output_scale, output_zp
get_conv2d_qnn_params(a) ==
    LET l == conv2d_locals(a)
    IN  [status |-> l.status, output_scale |-> l.output_scale, output_zp |-> l.output_zp]

InputScales ==
    {Rat(1, 2), Rat(3, 2)}

WeightScales ==
    {[scalar |-> TRUE, v |-> s] : s \in {Rat(1, 10), Rat(1, 2), Rat(3, 2)}}
    \cup {[scalar |-> FALSE, v |-> l] :
               l \in {<<Rat(1, 10)>>, <<Rat(1, 10), Rat(1, 2)>>, <<Rat(3, 2), Rat(1, 2)>>,
                      <<Rat(1, 2), Rat(1, 10), Rat(3, 2)>>}}

\* zero points inside the dtype range: near both ends and near 0
ZeroPoints(dtype, spread) ==
    LET r == get_range_for_dtype_str(dtype)
    IN  {z \in (r[1]..(r[1] + spread)) \cup ((r[2] - spread)..r[2])
                 \cup ((-spread)..spread) : r[1] <= z /\ z <= r[2]}

DTypeCombos ==
    {<<"int8", "int8", "int8">>, <<"uint8", "int8", "int16">>}

WeightShapes ==
    {<<1, h, w, c>> : h \in 1..MaxWeightDim, w \in 1..MaxWeightDim, c \in 1..MaxWeightDim}

ConvArgsOver(shapes, inScales, wScales, dtypes, spread) ==
    UNION {[weight_shape : shapes, input_scale : inScales,
            input_zp : ZeroPoints(t[1], spread),
            weights_scale : wScales, weights_zp : ZeroPoints(t[2], spread),
            input_dtype : {t[1]}, weights_dtype : {t[2]}, output_dtype : {t[3]},
            is_depthwise : BOOLEAN] : t \in dtypes}

\* the end-to-end example of the specification
ExampleArgs ==
    [weight_shape |-> <<1, 3, 3, 4>>, input_scale |-> Rat(1, 2), input_zp |-> 0,
     weights_scale |-> [scalar |-> FALSE, v |-> <<Rat(1, 10)>>], weights_zp |-> 0,
     input_dtype |-> "int8", weights_dtype |-> "int8", output_dtype |-> "int8",
     is_depthwise |-> FALSE]

ConvArgs ==
    ConvArgsOver(WeightShapes, InputScales, WeightScales, DTypeCombos, ZpSpread)
    \cup {ExampleArgs}

\* the smaller argument set of the accumulator runs
AccConvArgs ==
    ConvArgsOver({<<1, h, 1, c>> : h \in 1..MaxAccDim, c \in 1..MaxAccDim},
                 {Rat(1, 2)},
                 {[scalar |-> TRUE, v |-> Rat(1, 2)],
                  [scalar |-> FALSE, v |-> <<Rat(1, 2), Rat(3, 2)>>]},
                 {<<"int8", "int8", "int8">>}, 0)

(***************************************************************************)
(* make_qnn_relu                                                           *)
(*                                                                         *)
(* The result is the expression returned: the unclipped expr ("expr"), a   *)
(* clip call with its bounds ("clip"), or Python's None when the function  *)
(* body ends without a return statement ("None").                          *)
(***************************************************************************)
\* mutant: exact ties rounded away from zero instead of to the even integer
quantize_half_away(x, scale, zero_point) ==
    RoundHalfAway(RDiv(x, scale)) + zero_point

\* quantize = lambda x: float(int(round(x / scale)) + zero_point)
quantize(x, scale, zero_point) ==
    RoundHalfEven(RDiv(x, scale)) + zero_point

\* a_min = max(qmin, quantize(lo))
clip_a_min(qmin, q) ==
    MaxInt(qmin, q)

\* mutant: the upper clip point is not intersected with the dtype range
clip_a_max_unclamped(qmax, q) ==
    q

\* a_max = min(qmax, quantize(hi))
clip_a_max(qmax, q) ==
    MinInt(qmax, q)

make_qnn_relu(fused_activation_fn, scale, zero_point, dtype) ==
    LET r == get_range_for_dtype_str(dtype)
        qmin == r[1]
        qmax == r[2]
    IN  IF fused_activation_fn = "NONE" THEN [kind |-> "expr"]
        ELSE IF fused_activation_fn = "RELU6"
        THEN [kind |-> "clip",
              a_min |-> clip_a_min(qmin, quantize(FromInt(0), scale, zero_point)),
              a_max |-> clip_a_max(qmax, quantize(FromInt(6), scale, zero_point))]
        ELSE IF fused_activation_fn = "RELU_N1_TO_1"
        THEN [kind |-> "clip",
              a_min |-> clip_a_min(qmin, quantize(FromInt(-1), scale, zero_point)),
              a_max |-> clip_a_max(qmax, quantize(FromInt(1), scale, zero_point))]
        ELSE IF fused_activation_fn = "RELU"
        THEN [kind |-> "clip",
              a_min |-> clip_a_min(qmin, quantize(FromInt(0), scale, zero_point)),
              a_max |-> qmax]
        ELSE [kind |-> "None"]

\* the reals make_qnn_relu hands to quantize: -1.0, 0 / 0.0, 1.0 and 6.0
ClipPoints ==
    {-1, 0, 1, 6}

\* the values of the quantize lambda at the clip points, for the call's scale and
\* zero point
relu_locals(scale, zero_point) ==
    [quantized |-> [x \in ClipPoints |-> quantize(FromInt(x), scale, zero_point)]]

KnownActivations ==
    {"NONE", "RELU", "RELU6", "RELU_N1_TO_1"}

\* TANH and SIGN_BIT are fused activation kinds of TFLite the function does not name
Activations ==
    KnownActivations \cup {"TANH", "SIGN_BIT"}

ReluScales ==
    {Rat(1, 100), Rat(1, 10), Rat(1, 2), Rat(1, 1), Rat(4, 3), Rat(2, 1), Rat(4, 1),
     Rat(12, 5), Rat(12, 1), Rat(300, 1)}

ReluArgs ==
    UNION {[fused_activation_fn : Activations, scale : ReluScales,
            zero_point : ZeroPoints(t, ZpSpread), dtype : {t}] : t \in IntDTypes}

(***************************************************************************)
(* The caller.                                                             *)
(***************************************************************************)
NoValue == <<>>

Init ==
    /\ fn = "idle"
    /\ args = NoValue
    /\ result = NoValue
    /\ locals = NoValue
    /\ acc = Zero
    /\ taken = 0

CallGetSamePadding ==
    /\ fn = "idle"
    /\ \E a \in PadArgs :
        /\ args' = a
        /\ result' = get_same_padding(a.in_shape, a.kernel, a.dilation, a.stride)
    /\ locals' = NoValue
    /\ fn' = "get_same_padding"
    /\ UNCHANGED <<acc, taken>>

CallConvOver(argSet) ==
    /\ fn = "idle"
    /\ \E a \in argSet :
        /\ args' = a
        /\ result' = get_conv2d_qnn_params(a)
        /\ locals' = conv2d_locals(a)
    /\ fn' = "get_conv2d_qnn_params"
    /\ UNCHANGED <<acc, taken>>

CallGetConv2dQnnParams ==
    CallConvOver(ConvArgs)

CallMakeQnnRelu ==
    /\ fn = "idle"
    /\ \E a \in ReluArgs :
        /\ args' = a
        /\ result' = make_qnn_relu(a.fused_activation_fn, a.scale, a.zero_point, a.dtype)
        /\ locals' = relu_locals(a.scale, a.zero_point)
    /\ fn' = "make_qnn_relu"
    /\ UNCHANGED <<acc, taken>>

(***************************************************************************)
(* The convolution the derived parameters are for: its accumulator is the  *)
(* sum of num_elements products of a dequantized input and a dequantized   *)
(* weight.  Each step adds one product; the quantized values are taken at  *)
(* the ends of their dtype ranges and at the zero point, the weight's      *)
(* scale is that of its channel (any element of weights_scale).            *)
(***************************************************************************)
QSamples(dtype, zp) ==
    {get_range_for_dtype_str(dtype)[1], zp, get_range_for_dtype_str(dtype)[2]}

Dequantize(scale, q, zp) ==
    RMul(scale, FromInt(q - zp))

CallConvForAccumulator ==
    CallConvOver(AccConvArgs)

Accumulate ==
    /\ fn = "get_conv2d_qnn_params"
    /\ RLt(FromInt(taken), locals.num_elements)
    /\ \E qi \in QSamples(args.input_dtype, args.input_zp),
          qw \in QSamples(args.weights_dtype, args.weights_zp),
          ws \in ScaleValues(args.weights_scale) :
        acc' = RAdd(acc, RMul(Dequantize(args.input_scale, qi, args.input_zp),
                              Dequantize(ws, qw, args.weights_zp)))
    /\ taken' = taken + 1
    /\ UNCHANGED <<fn, args, result, locals>>

Return ==
    /\ fn # "idle"
    /\ fn' = "idle"
    /\ args' = NoValue
    /\ result' = NoValue
    /\ locals' = NoValue
    /\ acc' = Zero
    /\ taken' = 0

Next ==
    \/ CallGetSamePadding
    \/ CallGetConv2dQnnParams
    \/ CallMakeQnnRelu
    \/ Return

Spec == Init /\ [][Next]_vars

NextAcc ==
    \/ CallConvForAccumulator
    \/ Accumulate
    \/ Return

SpecAcc == Init /\ [][NextAcc]_vars

(***************************************************************************)
(* Properties of get_same_padding.                                         *)
(***************************************************************************)
InPadCall ==
    fn = "get_same_padding"

\* ceil(in / stride) in integer arithmetic
CeilDivInt(in, stride) ==
    (in + stride - 1) \div stride

\* the output size of a convolution over in + before + after samples
ConvOutSize(in, before, after, kernel, dilation, stride) ==
    ((in + before + after - (dilation * (kernel - 1) + 1)) \div stride) + 1

\* the padding before clamping at 0
RawPad(in, kernel, dilation, stride) ==
    (CeilDivInt(in, stride) - 1) * stride + (dilation * (kernel - 1) + 1) - in

\* C6: on each spatial axis the returned padding gives the SAME output size:
\* floor((input + pad_before + pad_after - effective_kernel) / stride) + 1 equals
\* ceil(input / stride), also where the total padding is clamped to 0.
C6_SameOutputSize ==
    InPadCall =>
        /\ ConvOutSize(args.in_shape[1], result[1], result[3], args.kernel[1],
                       args.dilation[1], args.stride[1])
             = CeilDivInt(args.in_shape[1], args.stride[1])
        /\ ConvOutSize(args.in_shape[2], result[2], result[4], args.kernel[2],
                       args.dilation[2], args.stride[2])
             = CeilDivInt(args.in_shape[2], args.stride[2])

\* a call where the height padding is clamped from a negative value to 0 while the
\* width axis, with a dilated kernel, is padded
C6_Witness ==
    /\ InPadCall
    /\ RawPad(args.in_shape[1], args.kernel[1], args.dilation[1], args.stride[1]) < 0
    /\ result[1] = 0 /\ result[3] = 0
    /\ args.dilation[2] > 1 /\ result[2] + result[4] > 2

\* C7: the result is (top, left, bottom, right), every entry a non-negative
\* integer; on each axis pad_before = floor(total_pad / 2) and pad_after =
\* total_pad - pad_before, so 0 <= pad_after - pad_before <= 1; top and bottom
\* depend only on the height arguments, left and right only on the width
\* arguments; the two examples of the specification give (1, 1, 1, 1).
C7_PaddingOrderAndSplit ==
    InPadCall =>
        LET total_h == MaxInt(0, RawPad(args.in_shape[1], args.kernel[1],
                                        args.dilation[1], args.stride[1]))
            total_w == MaxInt(0, RawPad(args.in_shape[2], args.kernel[2],
                                        args.dilation[2], args.stride[2]))
            \* the same call with the width (height) arguments replaced
            other_w == get_same_padding(<<args.in_shape[1], 1>>, <<args.kernel[1], 1>>,
                                        <<args.dilation[1], 1>>, <<args.stride[1], 1>>)
            other_h == get_same_padding(<<1, args.in_shape[2]>>, <<1, args.kernel[2]>>,
                                        <<1, args.dilation[2]>>, <<1, args.stride[2]>>)
        IN  /\ Len(result) = 4
            /\ \A i \in 1..4 : result[i] \in Nat
            /\ result[1] = total_h \div 2 /\ result[3] = total_h - result[1]
            /\ result[2] = total_w \div 2 /\ result[4] = total_w - result[2]
            /\ result[3] - result[1] \in {0, 1}
            /\ result[4] - result[2] \in {0, 1}
            /\ result[1] = other_w[1] /\ result[3] = other_w[3]
            /\ result[2] = other_h[2] /\ result[4] = other_h[4]
            /\ (/\ args.in_shape = <<8, 8>> /\ args.kernel = <<3, 3>>
                /\ args.dilation = <<1, 1>> /\ args.stride = <<1, 1>>)
                  => result = <<1, 1, 1, 1>>
            /\ (/\ args.in_shape = <<7, 7>> /\ args.kernel = <<3, 3>>
                /\ args.dilation = <<1, 1>> /\ args.stride = <<2, 2>>)
                  => result = <<1, 1, 1, 1>>

\* a call whose height padding is odd (split unevenly) and differs from the width
\* padding, so that the order of the four entries shows
C7_Witness ==
    /\ InPadCall
    /\ result[3] = result[1] + 1
    /\ result[2] = result[4]
    /\ result[2] > result[3]

(***************************************************************************)
(* Properties of make_qnn_relu.                                            *)
(***************************************************************************)
InReluCall ==
    fn = "make_qnn_relu"

\* C4: for RELU, RELU6 and RELU_N1_TO_1, every scale > 0 and every zero point
\* inside the range of the output dtype, the clip bounds satisfy
\* dtype_min <= a_min <= a_max <= dtype_max.
C4_ClipBoundsOrdered ==
    (InReluCall /\ args.fused_activation_fn \in {"RELU", "RELU6", "RELU_N1_TO_1"}) =>
        /\ result.kind = "clip"
        /\ get_range_for_dtype_str(args.dtype)[1] <= result.a_min
        /\ result.a_min <= result.a_max
        /\ result.a_max <= get_range_for_dtype_str(args.dtype)[2]

\* a RELU6 call whose quantized 6.0 lies above the dtype maximum, so that the
\* intersection with the dtype range decides a_max
C4_Witness ==
    /\ InReluCall
    /\ args.fused_activation_fn = "RELU6"
    /\ quantize(FromInt(6), args.scale, args.zero_point)
         > get_range_for_dtype_str(args.dtype)[2]
    /\ result.a_max = get_range_for_dtype_str(args.dtype)[2]
    /\ result.a_min > get_range_for_dtype_str(args.dtype)[1]

\* C5: called with an activation kind that is none of NONE, RELU, RELU6,
\* RELU_N1_TO_1, make_qnn_relu fails with an unsupported-activation error; it
\* never completes normally with a result.
C5_UnknownActivationFails ==
    (InReluCall /\ args.fused_activation_fn \notin KnownActivations) =>
        result.kind = "UnsupportedActivation"

\* the quotient x / scale of the call
ClipQuotient(x) ==
    RDiv(FromInt(x), args.scale)

\* x / scale lies exactly half way between two integers
IsTie(q) ==
    q.d = 2

\* C11: the quantize helper maps x to round_to_nearest(x / scale) + zero_point
\* with exact half-integer quotients rounded away from zero (0.5 gives 1, 2.5
\* gives 3), for every scale > 0 and every x in {-1.0, 0.0, 1.0, 6.0}.
C11_QuantizeTiesAwayFromZero ==
    InReluCall =>
        \A x \in ClipPoints :
            LET q == ClipQuotient(x)
                k == locals.quantized[x] - args.zero_point
            IN  /\ RLe(RSub(q, Rat(1, 2)), FromInt(k))
                /\ RLe(FromInt(k), RAdd(q, Rat(1, 2)))
                /\ IsTie(q) => Abs(k) > Abs(TruncToInt(q))

\* C11 as amended: the quantize helper maps x to the integer nearest to
\* x / scale, plus zero_point, with exact half-integer quotients rounded to the
\* even neighbour (0.5 gives 0, 1.5 gives 2, 2.5 gives 2, -0.5 gives 0).
C11_QuantizeTiesToEven ==
    InReluCall =>
        \A x \in ClipPoints :
            LET q == ClipQuotient(x)
                k == locals.quantized[x] - args.zero_point
            IN  /\ RLe(RSub(q, Rat(1, 2)), FromInt(k))
                /\ RLe(FromInt(k), RAdd(q, Rat(1, 2)))
                /\ IsTie(q) => k % 2 = 0

\* a call where 6.0 / scale is 2.5 and is quantized to zero_point + 2, and
\* 1.0 / scale is no tie and is quantized to the nearest integer
C11_Witness ==
    /\ InReluCall
    /\ ClipQuotient(6) = Rat(5, 2)
    /\ locals.quantized[6] = args.zero_point + 2
    /\ locals.quantized[1] = args.zero_point
    /\ locals.quantized[-1] = args.zero_point

(***************************************************************************)
(* Properties of get_conv2d_qnn_params.                                    *)
(***************************************************************************)
InConvCall ==
    fn = "get_conv2d_qnn_params"

InDTypeRange(q, dtype) ==
    /\ get_range_for_dtype_str(dtype)[1] <= q
    /\ q <= get_range_for_dtype_str(dtype)[2]

\* real values of [output_min, output_max]: both ends, the middle and the
\* points a quarter of the way in
OutputSamples ==
    {RAdd(locals.output_min,
          RMul(Rat(k, 4), RSub(locals.output_max, locals.output_min))) : k \in 0..4}

\* C1: every real v with output_min <= v <= output_max, quantized with the
\* returned pair as round_to_nearest(v / output_scale) + output_zp, gives an
\* integer inside [output_dtype_min, output_dtype_max]; in particular for
\* v = output_min and v = output_max.
C1_OutputRangeRepresentable ==
    (InConvCall /\ result.status = "ok") =>
        \A v \in OutputSamples :
            InDTypeRange(quantize(v, result.output_scale, result.output_zp),
                         args.output_dtype)

C8_ScalePositiveZeroPointInRange ==
    InConvCall =>
        /\ RLt(locals.output_min, locals.output_max)
        /\ result.status = "ok"
        /\ result.output_scale.n > 0 /\ result.output_scale.d > 0
        /\ result.output_zp \in Int
        /\ InDTypeRange(result.output_zp, args.output_dtype)

\* the end-to-end example of the specification has been called and has returned
C8_Witness ==
    /\ InConvCall
    /\ args = ExampleArgs
    /\ result.status = "ok"
    /\ InDTypeRange(result.output_zp, "int8")

\* C9: for two positive input scales s1 <= s2 and all other arguments equal, the
\* output_scale returned for s1 is <= the output_scale returned for s2.
C9_MonotoneInInputScale ==
    InConvCall =>
        \A s2 \in InputScales :
            LET other == get_conv2d_qnn_params([args EXCEPT !.input_scale = s2])
            IN  /\ RLe(args.input_scale, s2)
                     => RLe(result.output_scale, other.output_scale)
                /\ RLe(s2, args.input_scale)
                     => RLe(other.output_scale, result.output_scale)

\* a call whose input scale is below another one of the model, for which the
\* output scale is strictly larger
C9_Witness ==
    /\ InConvCall
    /\ \E s2 \in InputScales :
        /\ RLt(args.input_scale, s2)
        /\ RLt(result.output_scale,
               get_conv2d_qnn_params([args EXCEPT !.input_scale = s2]).output_scale)

\* C10: for a weight shape (_, H, W, C), the pair returned with is_depthwise=True
\* equals the pair returned for (_, H, W, 1) with is_depthwise=False, all other
\* arguments equal; in both cases the element count used is exactly H*W.
C10_DepthwiseConsistency ==
    (InConvCall /\ args.is_depthwise) =>
        LET flat == [args EXCEPT !.weight_shape[4] = 1, !.is_depthwise = FALSE]
            hw == FromInt(args.weight_shape[2] * args.weight_shape[3])
        IN  /\ result = get_conv2d_qnn_params(flat)
            /\ locals.num_elements = hw
            /\ conv2d_locals(flat).num_elements = hw

\* a depthwise call with more than one channel and more than one element
C10_Witness ==
    /\ InConvCall
    /\ args.is_depthwise
    /\ args.weight_shape[4] > 1
    /\ args.weight_shape[2] * args.weight_shape[3] > 1
    /\ result.status = "ok"

\* C2: the sum of num_elements products of a dequantized input (input dtype
\* range, input_scale) and a dequantized weight (weight dtype range, the scale of
\* its channel) lies in the derived [output_min, output_max].
C2_AccumulatorWithinBounds ==
    (InConvCall /\ FromInt(taken) = locals.num_elements) =>
        /\ RLe(locals.output_min, acc)
        /\ RLe(acc, locals.output_max)

====
